---- MODULE Spec2Model ----
(***************************************************************************)
(* Model of the todo repository (src/src/todo.rs) over its SQLite table    *)
(* `todos`, and of the HTTP handlers (src/src/bin/todo-api.rs) that wrap   *)
(* the repository calls.  Every SQL statement is one atomic step; update   *)
(* is two statements (a SELECT, then an UPDATE) with no transaction around *)
(* them, so other statements can run between its two steps.                *)
(***************************************************************************)
EXTENDS Integers, Sequences, FiniteSets, TLC

\* ---- bounds ------------------------------------------------------------
\* number of create, update, delete and cleanup calls in one behaviour
\* (list and get leave the table and the callers as they are)
MaxCalls == 3
\* ids used in requests are 1..MaxId, and create stops once the next rowid
\* would exceed MaxId
MaxId == 2
\* rows of the tables that list is run on
MaxRows == 3

\* ---- program constants -------------------------------------------------
\* a u32 as two 16-bit halves (u32::MAX is beyond the integers of the checker)
U32(n) == [hi |-> n \div 65536, lo |-> n % 65536]
\* u32::MAX = 4294967295, bound as LIMIT when the pagination has no limit
U32_MAX == [hi |-> 65535, lo |-> 65535]

\* callers that can be between the two statements of an update (each HTTP
\* request works on its own clone of the repository handle); the calls that
\* are one statement need no caller identity
Procs == {1, 2}
\* titles of CreateTodo / UpdateTodo
Titles == {"a", "b"}
\* column default of `notes`
DefaultNotes == "note"
\* column default of `completed` (BOOLEAN stored as integer)
DefaultCompleted == 0
Ids == 1..MaxId

\* ---- Option<T> ---------------------------------------------------------
None == <<>>
Some(x) == <<x>>
unwrap_or(opt, default) == IF opt = None THEN default ELSE opt[1]

\* ---- rows and their Rust view ------------------------------------------
\* bool is bound as INTEGER 0/1 and decoded as "non-zero"
EncodeBool(b) == IF b THEN 1 ELSE 0
DecodeBool(i) == i # 0

\* struct Todo, decoded from a row (derive FromRow)
Todo(row) ==
    [id |-> row.id, title |-> row.title, notes |-> row.notes,
     completed |-> DecodeBool(row.completed)]

\* struct UpdateTodo: three optional fields
UpdateTodo ==
    [title : {None} \cup {Some(t) : t \in Titles},
     notes : {None, Some("n")},
     completed : {None} \cup {Some(b) : b \in BOOLEAN}]

\* struct Pagination: optional offset and limit (u32)
Pagination ==
    [offset : {None} \cup {Some(U32(n)) : n \in 0..MaxRows},
     limit : {None} \cup {Some(U32(n)) : n \in 0..MaxRows}]

NoTodo == [id |-> 0, title |-> "", notes |-> "", completed |-> FALSE]
NoPatch == [title |-> None, notes |-> None, completed |-> None]
NoCall == [id |-> 0, patch |-> NoPatch, todo |-> NoTodo, gone |-> FALSE]

VARIABLES
    todos,      \* the table: a set of rows [id, title, notes, completed]
    pc,         \* pc[p]: "idle", or "update_write" between update's two statements
    call,       \* call[p]: id, patch and the Todo read by the update in flight;
                \* gone: delete or cleanup has removed the row since it was read
    last,       \* the statement executed last, with its result and HTTP outcome
    created,    \* the ids returned by create, in order
    removed,    \* TRUE once delete or cleanup has removed a row
    untouched,  \* id -> title for rows no statement has written since their create
    ncalls      \* number of create, update, delete and cleanup calls made

vars == <<todos, pc, call, last, created, removed, untouched, ncalls>>

\* ---- SQL engine --------------------------------------------------------
RowIds(rows) == {r.id : r \in rows}
MaxRowId(rows) == CHOOSE m \in RowIds(rows) : \A i \in RowIds(rows) : i <= m

\* mutant: rowids counted from 0
NewRowid_FromZero(rows) == IF rows = {} THEN 0 ELSE MaxRowId(rows) + 1

\* INTEGER PRIMARY KEY without AUTOINCREMENT: the new rowid is one more than
\* the largest rowid now in the table, 1 for an empty table
NewRowid(rows) == IF rows = {} THEN 1 ELSE MaxRowId(rows) + 1

\* ORDER BY id
RECURSIVE OrderById(_)
OrderById(rows) ==
    IF rows = {} THEN <<>>
    ELSE LET first == CHOOSE r \in rows : \A s \in rows : r.id <= s.id
         IN  <<first>> \o OrderById(rows \ {first})

\* mutant: the two bind values swapped (LIMIT gets the offset, OFFSET the limit)
LimitOffset_Swapped(seq, l, o) ==
    LET skip == IF l.hi > 0 \/ l.lo > Len(seq) THEN Len(seq) ELSE l.lo
        rest == Len(seq) - skip
        take == IF o.hi > 0 \/ o.lo > rest THEN rest ELSE o.lo
    IN  SubSeq(seq, skip + 1, skip + take)

\* LIMIT l OFFSET o on an ordered result (l and o are u32): skip o rows,
\* then keep at most l of the rest
LimitOffset(seq, l, o) ==
    LET skip == IF o.hi > 0 \/ o.lo > Len(seq) THEN Len(seq) ELSE o.lo
        rest == Len(seq) - skip
        take == IF l.hi > 0 \/ l.lo > rest THEN rest ELSE l.lo
    IN  SubSeq(seq, skip + 1, skip + take)

\* ---- repository results ------------------------------------------------
Ok(v) == [status |-> "ok", value |-> v]
Err(e) == [status |-> e, value |-> None]

\* TodoRepository::list
list(rows, pagination) ==
    LET ordered == OrderById(rows)
        page == LimitOffset(ordered, unwrap_or(pagination.limit, U32_MAX),
                            unwrap_or(pagination.offset, U32(0)))
    IN  Ok([i \in 1..Len(page) |-> Todo(page[i])])

\* mutant: a missing row read as a default Todo (fetch_optional, unwrap_or_default)
get_OrDefault(rows, id) ==
    LET found == {r \in rows : r.id = id}
    IN  IF found = {} THEN Ok(NoTodo)
        ELSE Ok(Todo(CHOOSE r \in found : TRUE))

\* TodoRepository::get: fetch_one gives the row or Error::RowNotFound
get(rows, id) ==
    LET found == {r \in rows : r.id = id}
    IN  IF found = {} THEN Err("not_found")
        ELSE Ok(Todo(CHOOSE r \in found : TRUE))

\* mutant: notes not set by the patch fall back to the column default
MergedRow_DefaultNotes(id, update, todo) ==
    [id |-> id,
     title |-> unwrap_or(update.title, todo.title),
     notes |-> unwrap_or(update.notes, DefaultNotes),
     completed |-> EncodeBool(unwrap_or(update.completed, todo.completed))]

\* the row written by update's UPDATE statement
MergedRow(id, update, todo) ==
    [id |-> id,
     title |-> unwrap_or(update.title, todo.title),
     notes |-> unwrap_or(update.notes, todo.notes),
     completed |-> EncodeBool(unwrap_or(update.completed, todo.completed))]

\* ---- HTTP handlers (todo-api.rs): the repository result is unwrapped ----
Response(code, body) == [kind |-> "response", code |-> code, body |-> body]
Panic == [kind |-> "panic", code |-> 0, body |-> None]
NoHttp == [kind |-> "none", code |-> 0, body |-> None]
Pending == [kind |-> "pending", code |-> 0, body |-> None]

get_todos(result) ==
    IF result.status = "ok" THEN Response(200, result.value) ELSE Panic
get_todo(result) ==
    IF result.status = "ok" THEN Response(200, result.value) ELSE Panic
add_todo(result) ==
    IF result.status = "ok" THEN Response(201, result.value) ELSE Panic
delete_todo(result) ==
    IF result.status = "ok" THEN Response(204, None) ELSE Panic
update_todo(result) ==
    IF result.status = "ok" THEN Response(200, None) ELSE Panic

Statement(op, id, arg, result, before, http) ==
    [op |-> op, id |-> id, arg |-> arg, status |-> result.status,
     value |-> result.value, before |-> before, http |-> http]

\* ---- initial state: create_repo_and_table -------------------------------
Init ==
    /\ todos = {}
    /\ pc = [p \in Procs |-> "idle"]
    /\ call = [p \in Procs |-> NoCall]
    /\ last = Statement("none", 0, None, Ok(None), None, NoHttp)
    /\ created = <<>>
    /\ removed = FALSE
    /\ untouched = <<>>
    /\ ncalls = 0

\* ---- operations --------------------------------------------------------
\* mutant: the title is inserted into the notes column as well
Create_TitleAsNotes(title) ==
    /\ ncalls < MaxCalls
    /\ NewRowid(todos) <= MaxId
    /\ LET id == NewRowid(todos)
       IN  /\ todos' = todos \cup {[id |-> id, title |-> title,
                                    notes |-> title,
                                    completed |-> DefaultCompleted]}
           /\ last' = Statement("create", id, title, Ok(id), None, add_todo(Ok(id)))
           /\ created' = Append(created, id)
           /\ untouched' = (id :> title) @@ untouched
    /\ ncalls' = ncalls + 1
    /\ UNCHANGED <<pc, call, removed>>

\* TodoRepository::create
Create(title) ==
    /\ ncalls < MaxCalls
    /\ NewRowid(todos) <= MaxId
    /\ LET id == NewRowid(todos)
       IN  /\ todos' = todos \cup {[id |-> id, title |-> title,
                                    notes |-> DefaultNotes,
                                    completed |-> DefaultCompleted]}
           /\ last' = Statement("create", id, title, Ok(id), None, add_todo(Ok(id)))
           /\ created' = Append(created, id)
           /\ untouched' = (id :> title) @@ untouched
    /\ ncalls' = ncalls + 1
    /\ UNCHANGED <<pc, call, removed>>

\* TodoRepository::list
List(pagination) ==
    /\ LET result == list(todos, pagination)
       IN  last' = Statement("list", 0, pagination, result, None, get_todos(result))
    /\ UNCHANGED <<todos, pc, call, created, removed, untouched, ncalls>>

\* TodoRepository::get
Get(id) ==
    /\ LET result == get(todos, id)
       IN  last' = Statement("get", id, None, result, None, get_todo(result))
    /\ UNCHANGED <<todos, pc, call, created, removed, untouched, ncalls>>

\* TodoRepository::update, first statement: self.get(id).await?
UpdateRead(p, id, update) ==
    /\ pc[p] = "idle"
    /\ ncalls < MaxCalls
    /\ LET result == get(todos, id)
       IN  IF result.status = "ok"
           THEN /\ pc' = [pc EXCEPT ![p] = "update_write"]
                /\ call' = [call EXCEPT ![p] =
                               [id |-> id, patch |-> update, todo |-> result.value,
                                gone |-> FALSE]]
                /\ last' = Statement("update_read", id, update, result, None, Pending)
           ELSE /\ last' = Statement("update_read", id, update, result, None,
                                     update_todo(result))
                /\ UNCHANGED <<pc, call>>
    /\ ncalls' = ncalls + 1
    /\ UNCHANGED <<todos, created, removed, untouched>>

\* mutant: the patch is merged into the row as stored at the time of the write
UpdateWrite_Reread(p) ==
    /\ pc[p] = "update_write"
    /\ LET c == call[p]
           matched == {r \in todos : r.id = c.id}
           rows_affected == Cardinality(matched)
           result == Ok(rows_affected)
       IN  /\ todos' = (todos \ matched)
                          \cup {MergedRow(r.id, c.patch, Todo(r)) : r \in matched}
           /\ last' = Statement("update_write", c.id, c.patch, result,
                                [todo |-> c.todo, gone |-> c.gone,
                                 stored |-> {Todo(r) : r \in matched}],
                                update_todo(result))
           /\ untouched' = [i \in (DOMAIN untouched) \ {c.id} |-> untouched[i]]
    /\ pc' = [pc EXCEPT ![p] = "idle"]
    /\ call' = [call EXCEPT ![p] = NoCall]
    /\ UNCHANGED <<created, removed, ncalls>>

\* mutant: the UPDATE statement without its WHERE clause
UpdateWrite_NoWhere(p) ==
    /\ pc[p] = "update_write"
    /\ LET c == call[p]
           matched == todos
           rows_affected == Cardinality(matched)
           result == Ok(rows_affected)
       IN  /\ todos' = (todos \ matched)
                          \cup {MergedRow(r.id, c.patch, c.todo) : r \in matched}
           /\ last' = Statement("update_write", c.id, c.patch, result,
                                [todo |-> c.todo, gone |-> c.gone,
                                 stored |-> {Todo(r) : r \in matched}],
                                update_todo(result))
           /\ untouched' = [i \in (DOMAIN untouched) \ {c.id} |-> untouched[i]]
    /\ pc' = [pc EXCEPT ![p] = "idle"]
    /\ call' = [call EXCEPT ![p] = NoCall]
    /\ UNCHANGED <<created, removed, ncalls>>

\* TodoRepository::update, second statement: UPDATE ... where id = ?1
UpdateWrite(p) ==
    /\ pc[p] = "update_write"
    /\ LET c == call[p]
           matched == {r \in todos : r.id = c.id}
           rows_affected == Cardinality(matched)
           result == Ok(rows_affected)
       IN  /\ todos' = (todos \ matched)
                          \cup {MergedRow(r.id, c.patch, c.todo) : r \in matched}
           /\ last' = Statement("update_write", c.id, c.patch, result,
                                [todo |-> c.todo, gone |-> c.gone,
                                 stored |-> {Todo(r) : r \in matched}],
                                update_todo(result))
           /\ untouched' = [i \in (DOMAIN untouched) \ {c.id} |-> untouched[i]]
    /\ pc' = [pc EXCEPT ![p] = "idle"]
    /\ call' = [call EXCEPT ![p] = NoCall]
    /\ UNCHANGED <<created, removed, ncalls>>

\* the updates in flight whose row is among the removed ids take note of it
Removed(ids) ==
    [p \in Procs |->
        IF pc[p] = "update_write" /\ call[p].id \in ids
        THEN [call[p] EXCEPT !.gone = TRUE] ELSE call[p]]

\* mutant: the DELETE statement without its WHERE clause
Delete_NoWhere(id) ==
    /\ ncalls < MaxCalls
    /\ LET matched == todos
           result == Ok(Cardinality(matched))
       IN  /\ todos' = todos \ matched
           /\ last' = Statement("delete", id, None, result, None, delete_todo(result))
           /\ removed' = (removed \/ matched # {})
           /\ call' = Removed(RowIds(matched))
    /\ untouched' = [i \in (DOMAIN untouched) \ {id} |-> untouched[i]]
    /\ ncalls' = ncalls + 1
    /\ UNCHANGED <<pc, created>>

\* TodoRepository::delete
Delete(id) ==
    /\ ncalls < MaxCalls
    /\ LET matched == {r \in todos : r.id = id}
           result == Ok(Cardinality(matched))
       IN  /\ todos' = todos \ matched
           /\ last' = Statement("delete", id, None, result, None, delete_todo(result))
           /\ removed' = (removed \/ matched # {})
           /\ call' = Removed(RowIds(matched))
    /\ untouched' = [i \in (DOMAIN untouched) \ {id} |-> untouched[i]]
    /\ ncalls' = ncalls + 1
    /\ UNCHANGED <<pc, created>>

\* TodoRepository::cleanup
Cleanup ==
    /\ ncalls < MaxCalls
    /\ todos' = {}
    /\ last' = Statement("cleanup", 0, None, Ok(Cardinality(todos)), None, NoHttp)
    /\ removed' = (removed \/ todos # {})
    /\ call' = Removed(RowIds(todos))
    /\ untouched' = <<>>
    /\ ncalls' = ncalls + 1
    /\ UNCHANGED <<pc, created>>

Next ==
    \/ \E title \in Titles : Create(title)
    \/ \E id \in Ids : Get(id)
    \/ \E p \in Procs, id \in Ids, update \in UpdateTodo : UpdateRead(p, id, update)
    \/ \E p \in Procs : UpdateWrite(p)
    \/ \E id \in Ids : Delete(id)
    \/ Cleanup

Spec == Init /\ [][Next]_vars

\* ---- the calls on a table that already holds a row ------------------------
\* the state after the first create (test_get, test_update and test_delete
\* start by creating their rows), with the calls counted from there
InitRace ==
    \E title \in Titles :
        /\ todos = {[id |-> 1, title |-> title, notes |-> DefaultNotes,
                     completed |-> DefaultCompleted]}
        /\ pc = [p \in Procs |-> "idle"]
        /\ call = [p \in Procs |-> NoCall]
        /\ last = Statement("create", 1, title, Ok(1), None, add_todo(Ok(1)))
        /\ created = <<1>>
        /\ removed = FALSE
        /\ untouched = (1 :> title)
        /\ ncalls = 0

SpecRace == InitRace /\ [][Next]_vars

\* ---- list over every table content ---------------------------------------
\* values of the three data columns of a row: as created, or updated
RowData ==
    {[title |-> t, notes |-> DefaultNotes, completed |-> DefaultCompleted] : t \in Titles}
    \cup {[title |-> t, notes |-> "n", completed |-> EncodeBool(TRUE)] : t \in Titles}

\* the tables with ids among 1..MaxRows (create, update and delete reach them)
Tables ==
    UNION {{{[id |-> i, title |-> f[i].title, notes |-> f[i].notes,
              completed |-> f[i].completed] : i \in S} : f \in [S -> RowData]}
           : S \in SUBSET (1..MaxRows)}

InitList ==
    /\ todos \in Tables
    /\ pc = [p \in Procs |-> "idle"]
    /\ call = [p \in Procs |-> NoCall]
    /\ last = Statement("none", 0, None, Ok(None), None, NoHttp)
    /\ created = <<>>
    /\ removed = FALSE
    /\ untouched = <<>>
    /\ ncalls = 0

NextList == \E pagination \in Pagination : List(pagination)

SpecList == InitList /\ [][NextList]_vars

\* ========================================================================
\* Properties
\* ========================================================================
U32Value(u) == u.hi * 65536 + u.lo
RowOf(rows, id) == CHOOSE r \in rows : r.id = id
Exists(rows, id) == \E r \in rows : r.id = id
Unbounded == [offset |-> None, limit |-> None]

\* C1: list returns the rows of the table in ascending id order, without the
\* first `offset` rows (absent offset: 0) and cut to at most `limit` rows
\* (absent limit: no cut); an offset at or beyond the row count gives the
\* empty sequence and no error.  Stated without the sort: the i-th returned
\* row is the row that has exactly offset + i - 1 rows with a smaller id.
C1_ListPage ==
    last.op = "list" =>
        LET offset == IF last.arg.offset = None THEN 0
                      ELSE U32Value(last.arg.offset[1])
            n == Cardinality(todos)
            avail == IF offset >= n THEN 0 ELSE n - offset
            len == IF last.arg.limit = None THEN avail
                   ELSE IF U32Value(last.arg.limit[1]) > avail THEN avail
                   ELSE U32Value(last.arg.limit[1])
            r == last.value
        IN  /\ last.status = "ok"
            /\ Len(r) = len
            /\ \A i \in 1..Len(r) :
                  \E row \in todos :
                     /\ r[i] = [id |-> row.id, title |-> row.title,
                                notes |-> row.notes,
                                completed |-> (row.completed = 1)]
                     /\ Cardinality({s \in todos : s.id < row.id}) = offset + i - 1

\* a list over three rows that skips one row and keeps one
C1_Witness ==
    /\ last.op = "list"
    /\ Cardinality(todos) = 3
    /\ last.arg = [offset |-> Some(U32(1)), limit |-> Some(U32(1))]
    /\ Len(last.value) = 1
    /\ last.value[1].id = 2

\* C2: when the row that update read is still the stored row at its write (no
\* concurrent writer), update returns 1 and the row gets, field by field, the
\* patch value where the patch sets one and the stored value where it does
\* not; the patch that sets nothing leaves the table as it is and returns 1.
C2_UpdateMerges ==
    [][\A p \in Procs :
          ( /\ pc[p] = "update_write"
            /\ pc'[p] = "idle"
            /\ Exists(todos, call[p].id)
            /\ Todo(RowOf(todos, call[p].id)) = call[p].todo )
          => LET c == call[p]
                 old == RowOf(todos, c.id)
             IN  /\ last'.op = "update_write"
                 /\ last'.status = "ok"
                 /\ last'.value = 1
                 /\ Exists(todos', c.id)
                 /\ LET new == RowOf(todos', c.id)
                    IN  /\ new.title = IF c.patch.title = None THEN old.title
                                       ELSE c.patch.title[1]
                        /\ new.notes = IF c.patch.notes = None THEN old.notes
                                       ELSE c.patch.notes[1]
                        /\ (new.completed = 1) =
                              IF c.patch.completed = None THEN (old.completed = 1)
                              ELSE c.patch.completed[1]
                 /\ (c.patch = NoPatch => todos' = todos)
      ]_vars

\* an update of the title alone has returned 1 on a row nobody else wrote,
\* whose notes an earlier update had set
C2_Witness ==
    /\ last.op = "update_write"
    /\ last.value = 1
    /\ last.before.stored = {last.before.todo}
    /\ last.arg.title # None
    /\ last.arg.notes = None
    /\ last.arg.completed = None
    /\ last.before.todo.notes = "n"
    /\ last.before.todo.title # last.arg.title[1]
    /\ \E r \in todos : r.id = last.id /\ r.title = last.arg.title[1] /\ r.notes = "n"

\* C3: from the empty table, as long as no row has been removed (creates
\* alone are such a run), the k-th create returns k.
C3_CreateReturnsK ==
    ~removed => \A k \in 1..Len(created) : created[k] = k

\* two creates have returned and nothing was removed
C3_Witness ==
    /\ ~removed
    /\ Len(created) >= 2
    /\ created[Len(created)] = Len(created)

\* C4: no create returns an id that an earlier create returned: the ids
\* returned by create are strictly increasing.
C4_IdsNeverReused ==
    \A i, j \in 1..Len(created) : i < j => created[i] < created[j]

\* C5: get and update on an id without a row fail with not-found and return
\* no Todo; the failed update leaves the table as it is and has no write
\* pending; a get that succeeds returns the stored row.
C5_NotFound ==
    [][ /\ ( /\ last'.op \in {"get", "update_read"}
             /\ ~Exists(todos, last'.id) )
           => /\ last'.status = "not_found"
              /\ last'.value = None
              /\ todos' = todos
              /\ \A p \in Procs : pc'[p] = pc[p] /\ call'[p] = call[p]
        /\ ( /\ last'.op \in {"get", "update_read"}
             /\ last'.status = "ok" )
           => /\ Exists(todos, last'.id)
              /\ last'.value.id = last'.id
              /\ last'.value.title = RowOf(todos, last'.id).title
              /\ last'.value.notes = RowOf(todos, last'.id).notes
              /\ last'.value.completed = (RowOf(todos, last'.id).completed = 1)
      ]_vars

\* an update of an id without a row has failed
C5_Witness ==
    /\ last.op = "update_read"
    /\ last.status = "not_found"
    /\ ~Exists(todos, last.id)
    /\ todos # {}
    /\ \A p \in Procs : pc[p] = "idle"

\* C6: delete of an id with a row returns 1 and the unbounded list is one
\* row shorter; delete of an id without a row returns 0, does not fail and
\* leaves the table as it is.
C6_Delete ==
    [][ last'.op = "delete" =>
          /\ last'.status = "ok"
          /\ Exists(todos, last'.id) =>
                /\ last'.value = 1
                /\ Len(list(todos', Unbounded).value)
                      = Len(list(todos, Unbounded).value) - 1
          /\ ~Exists(todos, last'.id) =>
                /\ last'.value = 0
                /\ todos' = todos
      ]_vars

\* a delete has removed one of two rows
C6_Witness ==
    /\ last.op = "delete"
    /\ last.value = 1
    /\ Cardinality(todos) = 1
    /\ Len(created) = 2

\* C7: a get of an id that create returned, with no write to that id since,
\* returns the Todo with that id, the title given to create, notes "note"
\* and completed false.
C7_GetAfterCreate ==
    (last.op = "get" /\ last.id \in DOMAIN untouched) =>
        /\ last.status = "ok"
        /\ last.value = [id |-> last.id, title |-> untouched[last.id],
                         notes |-> "note", completed |-> FALSE]

\* get(1) has returned after a second create, with title "b"
C7_Witness ==
    /\ last.op = "get"
    /\ last.id = 1
    /\ ~removed
    /\ Len(created) = 2
    /\ 1 \in DOMAIN untouched
    /\ untouched[1] = "b"
    /\ last.value.title = "b"

\* C8: the write of an update stores the merge of the patch with the row the
\* update read, whatever is stored at the time of the write, and returns 1
\* when the row exists: the last writer wins.
C8_LastWriterWins ==
    [][\A p \in Procs :
          (pc[p] = "update_write" /\ pc'[p] = "idle")
          => LET c == call[p]
             IN  /\ last'.op = "update_write"
                 /\ last'.status = "ok"
                 /\ last'.value = IF Exists(todos, c.id) THEN 1 ELSE 0
                 /\ \A r \in todos' :
                       r.id = c.id =>
                          /\ r.title = IF c.patch.title = None THEN c.todo.title
                                       ELSE c.patch.title[1]
                          /\ r.notes = IF c.patch.notes = None THEN c.todo.notes
                                       ELSE c.patch.notes[1]
                          /\ (r.completed = 1) =
                                IF c.patch.completed = None THEN c.todo.completed
                                ELSE c.patch.completed[1]
      ]_vars

\* both updates of the one row have returned (the second just now, with 1);
\* the second read the row before the first wrote, and a field that the
\* first changed and the second's patch does not set is back at the value
\* the second read
C8_Witness ==
    /\ last.op = "update_write"
    /\ last.value = 1
    /\ ~removed
    /\ Len(created) = 1
    /\ ncalls = 3
    /\ \A p \in Procs : pc[p] = "idle"
    /\ \E s \in last.before.stored, r \in todos :
          /\ r.id = last.id
          /\ \/ /\ last.arg.title = None
                /\ s.title # last.before.todo.title
                /\ r.title = last.before.todo.title
             \/ /\ last.arg.notes = None
                /\ s.notes # last.before.todo.notes
                /\ r.notes = last.before.todo.notes

\* C9: the handlers of get and update answer not-found with a 404 response
\* and any other repository failure with a 500 response, and a repository
\* error never aborts the handler.
C9_HandlersAnswer ==
    (last.op \in {"get", "update_read", "update_write"} /\ last.status # "ok") =>
        /\ last.http.kind = "response"
        /\ last.http.code = IF last.status = "not_found" THEN 404 ELSE 500

\* C10: update and delete leave every row with another id as it is; update
\* keeps the set of ids; ids appear only by create and disappear only by
\* delete or cleanup.
C10_Frame ==
    [][ /\ last'.op \in {"update_write", "delete"} =>
              /\ \A r \in todos : r.id # last'.id => r \in todos'
              /\ \A r \in todos' : r.id # last'.id => r \in todos
        /\ last'.op = "update_write" => RowIds(todos') = RowIds(todos)
        /\ RowIds(todos') \ RowIds(todos) # {} => last'.op = "create"
        /\ RowIds(todos) \ RowIds(todos') # {} => last'.op \in {"delete", "cleanup"}
      ]_vars

\* an update has written one of two rows
C10_Witness ==
    /\ last.op = "update_write"
    /\ last.value = 1
    /\ Cardinality(todos) = 2
    /\ \E r \in todos : r.id = last.id /\ r.notes = "n"
    /\ \E r \in todos : r.id # last.id /\ r.notes = DefaultNotes

\* C11: when delete or cleanup has removed the row between the read and the
\* write of an update, the write matches no row: the update returns Ok with
\* 0 rows affected, not a not-found error, and the table stays as it is; and
\* no write of an update adds an id to the table.
C11_UpdateAfterDelete ==
    [][\A p \in Procs :
          (pc[p] = "update_write" /\ pc'[p] = "idle")
          => /\ call[p].gone =>
                   /\ last'.op = "update_write"
                   /\ last'.status = "ok"
                   /\ last'.value = 0
                   /\ todos' = todos
             /\ RowIds(todos') \subseteq RowIds(todos)
      ]_vars

\* C11, the cause: an update whose row was removed after its read finds a
\* row at its write only when create has returned that id a second time.
C11_OnlyByReusedId ==
    (last.op = "update_write" /\ last.before.gone /\ last.value # 0) =>
        \E i, j \in 1..Len(created) :
            i < j /\ created[i] = last.id /\ created[j] = last.id

====
